---------------------------- MODULE Spec2Model ----------------------------
(***************************************************************************)
(* The observation store of cpi.py: the value encoder sqlize, the          *)
(* synthetic data generator get_test_data and the four store operations    *)
(* write, create_table, table_df and delete_matching, run against the      *)
(* single SQLite table Observation.                                        *)
(*                                                                         *)
(* Text is a sequence of tokens: the quote character is its own token and  *)
(* every other token is a run of characters that holds no quote.  Numbers  *)
(* are integers (prices in millionths of a dollar) and calendar days are   *)
(* day numbers of January 2024.                                            *)
(***************************************************************************)
EXTENDS Integers, Sequences, FiniteSets

VARIABLES
    exists,     \* the table Observation exists in db_file
    rows,       \* its rows, in rowid order (the order of a table scan)
    nextOrd,    \* ghost: how many rows were ever inserted
    rng,        \* state of the module random's generator
    conns,      \* connections to db_file that are open
    budget,     \* calls of write, delete_matching and create_table still allowed
    last        \* the last call: operation, arguments, outcome and case

vars == <<exists, rows, nextOrd, rng, conns, budget, last>>

-----------------------------------------------------------------------------
(* Bounds of the model *)

\* get_test_data covers `periods` days with `replicas` records each; the
\* program sets 10 and 5, the model runs the same loops with fewer turns.
periods == 1
replicas == 1
\* calls of write, delete_matching and create_table in one behaviour
MaxCalls == 3
\* n_to_delete ranges over -1 .. MaxN
MaxN == 2

-----------------------------------------------------------------------------
(* Python values and SQLite values *)

NoText == <<>>
PyNone == [t |-> "none", s |-> NoText, n |-> 0]
PyStr(s) == [t |-> "str", s |-> s, n |-> 0]
PyNum(n) == [t |-> "num", s |-> NoText, n |-> n]
PyBool(b) == [t |-> "bool", s |-> NoText, n |-> IF b THEN 1 ELSE 0]
PyDate(d) == [t |-> "date", s |-> NoText, n |-> d]
PyDatetime(d) == [t |-> "datetime", s |-> NoText, n |-> d]

SqlText(s) == [t |-> "text", s |-> s, n |-> 0]
SqlNum(n) == [t |-> "num", s |-> NoText, n |-> n]

Quote == "'"
DigitTok == <<"0", "1", "2", "3", "4", "5", "6", "7", "8", "9">>

RECURSIVE Dec(_)
\* the decimal digits of a natural number
Dec(n) ==
    IF n < 10 THEN <<DigitTok[n + 1]>>
    ELSE Dec(n \div 10) \o <<DigitTok[(n % 10) + 1]>>

\* str(v) of an integer
str(n) == IF n < 0 THEN <<"-">> \o Dec(0 - n) ELSE Dec(n)

\* "%Y-%m-%d" of a day of January 2024
strftime_date(d) ==
    <<"2024-01-">> \o (IF d < 10 THEN <<"0">> ELSE <<>>) \o Dec(d)

\* "%Y-%m-%d %H:%M:%S.%f" of midnight of that day
strftime_datetime(d) == strftime_date(d) \o <<" 00:00:00.000000">>

RECURSIVE replace_quote(_)
\* v.replace("'", "''")
replace_quote(s) ==
    IF s = <<>> THEN <<>>
    ELSE (IF Head(s) = Quote THEN <<Quote, Quote>> ELSE <<Head(s)>>)
         \o replace_quote(Tail(s))

Quoted(s) == <<Quote>> \o s \o <<Quote>>

\* sqlize(v): the branches in the order of the source
sqlize(v) ==
    IF v.t = "str" THEN Quoted(replace_quote(v.s))
    ELSE IF v.t = "datetime" THEN Quoted(strftime_datetime(v.n))
    ELSE IF v.t = "date" THEN Quoted(strftime_date(v.n))
    ELSE IF v.t = "bool" THEN str(v.n)
    ELSE IF v.t = "none" THEN <<"None">>
    ELSE str(v.n)

-----------------------------------------------------------------------------
(* How SQLite reads a literal of a statement *)

IsDigit(c) == \E i \in 1..10 : DigitTok[i] = c
DigitVal(c) == (CHOOSE i \in 1..10 : DigitTok[i] = c) - 1

RECURSIVE NumVal(_)
NumVal(s) ==
    IF s = <<>> THEN 0
    ELSE 10 * NumVal(SubSeq(s, 1, Len(s) - 1)) + DigitVal(s[Len(s)])

AllDigits(s) == s # <<>> /\ \A i \in 1..Len(s) : IsDigit(s[i])

RECURSIVE Unquote(_)
\* the text between the quotes of a string literal, "''" read as one quote;
\* a quote that is not doubled ends the literal early: a syntax error
Unquote(s) ==
    IF s = <<>> THEN [ok |-> TRUE, s |-> <<>>]
    ELSE IF Head(s) # Quote
    THEN LET r == Unquote(Tail(s)) IN [ok |-> r.ok, s |-> <<Head(s)>> \o r.s]
    ELSE IF Len(s) >= 2 /\ s[2] = Quote
    THEN LET r == Unquote(Tail(Tail(s))) IN [ok |-> r.ok, s |-> <<Quote>> \o r.s]
    ELSE [ok |-> FALSE, s |-> <<>>]

\* the value of a literal, or an error: a bare word such as None is a column
\* name that the table does not have
sql_literal(lit) ==
    IF Len(lit) >= 2 /\ lit[1] = Quote /\ lit[Len(lit)] = Quote
    THEN LET r == Unquote(SubSeq(lit, 2, Len(lit) - 1))
         IN [ok |-> r.ok, v |-> SqlText(r.s)]
    ELSE IF AllDigits(lit) THEN [ok |-> TRUE, v |-> SqlNum(NumVal(lit))]
    ELSE IF Len(lit) >= 2 /\ lit[1] = "-" /\ AllDigits(Tail(lit))
    THEN [ok |-> TRUE, v |-> SqlNum(0 - NumVal(Tail(lit)))]
    ELSE [ok |-> FALSE, v |-> SqlNum(0)]

-----------------------------------------------------------------------------
(* The vocabulary: class attributes of Observation, in dictionary order *)

category_item_map ==
    << [k |-> <<"Food">>, v |-> << <<"USDA Grade-A eggs, Dozen">> >>],
       [k |-> <<"Fuel">>, v |-> << <<"Regular Gasoline, Gallon">> >>],
       [k |-> <<"Clothing">>, v |-> << <<"Wool Socks, Pair">> >>] >>

state_city_map ==
    << [k |-> <<"California">>, v |-> << <<"Los Angelos">>, <<"San Francisco">> >>],
       [k |-> <<"New York">>, v |-> << <<"New York City">> >>],
       [k |-> <<"Texas">>, v |-> << <<"Austin">>, <<"Dallas">> >>] >>

\* base prices in cents
item_base_price(item) ==
    CASE item = <<"USDA Grade-A eggs, Dozen">> -> 299
      [] item = <<"Regular Gasoline, Gallon">> -> 465
      [] item = <<"Wool Socks, Pair">> -> 2195

\* (mu, std) of a state, in hundredths
state_price_mu_std(state) ==
    CASE state = <<"California">> -> <<150, 15>>
      [] state = <<"New York">> -> <<175, 25>>
      [] state = <<"Texas">> -> <<100, 10>>

RECURSIVE ConcatAll(_)
\* the concatenation of a sequence of sequences
ConcatAll(ss) == IF ss = <<>> THEN <<>> ELSE Head(ss) \o ConcatAll(Tail(ss))

\* itertools.chain.from_iterable(map.values())
chain_values(map) == ConcatAll([i \in 1..Len(map) |-> map[i].v])

available_items == chain_values(category_item_map)
available_categories == [i \in 1..Len(category_item_map) |-> category_item_map[i].k]
available_states == [i \in 1..Len(state_city_map) |-> state_city_map[i].k]
available_cities == chain_values(state_city_map)

-----------------------------------------------------------------------------
(* The synthetic data generator *)

\* random.gauss(mu, sigma) in generator state g: the draw is mu plus a whole
\* number of sigmas, and successive states give different draws
Noise == <<1, -1>>
gauss(mu, sigma, g) == mu + Noise[(g % Len(Noise)) + 1] * sigma

\* the date range without its last day
dt_range_open(today) == [i \in 1..periods |-> today - periods + i - 1]

\* pd.date_range(end=today, periods=periods, freq="D"): the days up to today
dt_range(today) == [i \in 1..periods |-> today - periods + i]

\* the list comprehension `combos`: one record per turn of the innermost loop
combos(today) ==
    ConcatAll([c \in 1..Len(category_item_map) |->
      ConcatAll([it \in 1..Len(category_item_map[c].v) |->
        ConcatAll([s \in 1..Len(state_city_map) |->
          ConcatAll([ci \in 1..Len(state_city_map[s].v) |->
            ConcatAll([d \in 1..Len(dt_range(today)) |->
              [r \in 1..replicas |->
                [Date |-> PyDatetime(dt_range(today)[d]),
                 Category |-> PyStr(category_item_map[c].k),
                 Item |-> PyStr(category_item_map[c].v[it]),
                 State |-> PyStr(state_city_map[s].k),
                 City |-> PyStr(state_city_map[s].v[ci])]]])])])])])

\* the three passes over df["Price"], in units of 1e-6 dollar: the base price,
\* times the state's mu, then a gaussian draw around it; row i makes draw i
price_of(rec, g) ==
    LET base == item_base_price(rec.Item.s)
        ms == state_price_mu_std(rec.State.s)
        scaled == base * ms[1]
    IN  gauss(scaled * 100, scaled * ms[2], g)

get_test_data(today, g) ==
    LET cs == combos(today)
    IN  [i \in 1..Len(cs) |->
          [Date |-> cs[i].Date, Category |-> cs[i].Category, Item |-> cs[i].Item,
           State |-> cs[i].State, City |-> cs[i].City,
           Price |-> PyNum(price_of(cs[i], g + i - 1))]]

-----------------------------------------------------------------------------
(* The table Observation and the statements run against it *)

Columns == {"Date", "Item", "Price", "Category", "State", "City"}

\* a row of the table: its rowid, its six columns, and (ghost) its insertion stamp
Row(rowid, ord, f) ==
    [rowid |-> rowid, ord |-> ord, Date |-> f.Date, Item |-> f.Item,
     Price |-> f.Price, Category |-> f.Category, State |-> f.State, City |-> f.City]

\* the rowid SQLite gives a new row: one more than the largest in the table
next_rowid(rs) == IF rs = <<>> THEN 1 ELSE rs[Len(rs)].rowid + 1

\* the table with one more row, kept in rowid order
insert_row(rs, r) ==
    LET before == SelectSeq(rs, LAMBDA x : x.rowid < r.rowid)
        after == SelectSeq(rs, LAMBDA x : x.rowid > r.rowid)
    IN  before \o <<r>> \o after

\* the column list with Item and Category exchanged
insert_columns_swapped == <<"Date", "Category", "Price", "Item", "State", "City">>

\* the column list of the INSERT statement of write()
insert_columns == <<"Date", "Item", "Price", "Category", "State", "City">>

\* the attributes write() encodes, in its order
write_values(obs) ==
    <<obs.Date, obs.Item, obs.Price, obs.Category, obs.State, obs.City>>

\* the condition of the guard of write(): no field encoded to None
none_guard(row) == \A i \in 1..Len(row) : row[i] # <<"None">>

\* what the guard scopes.  The two statements after `if "None" not in row:`
\* stand at the indentation of the `if` itself, so the source does not say:
\* both of them (the INSERT is built and run only when the guard holds),
\* none of them (the INSERT always runs), or the first alone (`sql` is
\* unbound at con.execute(sql) when the guard fails).
GuardScopes == {"both", "none", "first"}

\* INSERT INTO Observation (cols) values (lits), on a table: the outcome
exec_insert(ex, rs, ord, cols, lits) ==
    LET vals == [i \in 1..Len(lits) |-> sql_literal(lits[i])]
        at(c) == vals[CHOOSE i \in 1..Len(cols) : cols[i] = c].v
        f == [c \in Columns |-> at(c)]
    IN  IF ~ex \/ \E i \in 1..Len(vals) : ~vals[i].ok
        THEN [err |-> TRUE, rows |-> rs]
        ELSE [err |-> FALSE, rows |-> insert_row(rs, Row(next_rowid(rs), ord, f))]

\* k.capitalize() of a keyword of delete_matching
capitalize(k) ==
    CASE k = "state" -> "State"
      [] k = "city" -> "City"
      [] k = "date" -> "Date"
      [] k = "category" -> "Category"
      [] k = "item" -> "Item"
      [] k = "price" -> "Price"
      [] OTHER -> k

\* the conditions of delete_matching: one `Column=literal` per keyword
conditions(kwargs) ==
    [i \in 1..Len(kwargs) |->
        [col |-> capitalize(kwargs[i].k), lit |-> sqlize(kwargs[i].v)]]

\* the statement is well formed: a WHERE clause with resolvable terms
conditions_ok(conds) ==
    /\ conds # <<>>
    /\ \A i \in 1..Len(conds) :
        conds[i].col \in Columns /\ sql_literal(conds[i].lit).ok

\* the values the literals of the conditions denote
condition_values(conds) == [i \in 1..Len(conds) |-> sql_literal(conds[i].lit).v]

\* the conditions joined by OR
where_or(conds, vals, r) == \E i \in 1..Len(conds) : r[conds[i].col] = vals[i]

\* " AND ": the row satisfies every condition
where_and(conds, vals, r) == \A i \in 1..Len(conds) : r[conds[i].col] = vals[i]

\* the rowids of the rows the WHERE clause selects
matching(rs, conds) ==
    LET vals == condition_values(conds)
    IN  {rs[i].rowid : i \in {j \in 1..Len(rs) : where_and(conds, vals, rs[j])}}

\* a statement whose LIMIT is not applied
limit_ignored(n, k) == k

\* LIMIT n of k rows: a negative limit is no limit
limit(n, k) == IF n < 0 THEN k ELSE IF n < k THEN n ELSE k

RECURSIVE KSubsets(_, _)
\* the subsets of S with k elements
KSubsets(S, k) ==
    IF k = 0 THEN {{}}
    ELSE IF S = {} THEN {}
    ELSE LET x == CHOOSE y \in S : TRUE
         IN  KSubsets(S \ {x}, k) \cup {T \cup {x} : T \in KSubsets(S \ {x}, k - 1)}

\* SELECT rowid ... WHERE conds LIMIT n: without ORDER BY any n of the
\* matching rows may be the ones selected
select_limit(rs, conds, n) ==
    LET m == matching(rs, conds) IN KSubsets(m, limit(n, Cardinality(m)))

\* DELETE from Observation WHERE rowid in S
without(rs, S) == SelectSeq(rs, LAMBDA r : r.rowid \notin S)

\* pd.read_sql("select * from Observation"): the rows as a scan yields them
read_sql(rs) == rs

\* the frame left in the order of the scan
sort_index_asc(df) == df

\* sort_index(ascending=False) of a frame with the default index
sort_index_desc(df) == [i \in 1..Len(df) |-> df[Len(df) + 1 - i]]

\* table_df(): the frame it returns
table_df(rs) == sort_index_desc(read_sql(rs))

\* the table left as it is when it exists ("create table if not exists")
create_if_missing(rs) == rs

\* "drop table if exists Observation", then "create table Observation": the
\* table is new and empty
drop_and_create(rs) == <<>>

\* how df.to_sql stores a record of get_test_data: the Timestamp as text
\* "YYYY-MM-DD 00:00:00", text and numbers as they are
to_sql_fields(rec) ==
    [Date |-> SqlText(strftime_date(rec.Date.n) \o <<" 00:00:00">>),
     Item |-> SqlText(rec.Item.s), Price |-> SqlNum(rec.Price.n),
     Category |-> SqlText(rec.Category.s), State |-> SqlText(rec.State.s),
     City |-> SqlText(rec.City.s)]

\* df.to_sql("Observation", if_exists="append"): the records appended in
\* frame order, as one transaction
to_sql(rs, df, ord) ==
    rs \o [i \in 1..Len(df) |->
            Row(next_rowid(rs) + i - 1, ord + i - 1, to_sql_fields(df[i]))]

-----------------------------------------------------------------------------
(* Inputs of the calls *)

Food == PyStr(<<"Food">>)
Texas == PyStr(<<"Texas">>)
Dallas == PyStr(<<"Dallas">>)

\* the observation of test_cpi.py, and one whose text holds a quote and the
\* word None
ObsEggs ==
    [Date |-> PyDate(15), Item |-> PyStr(<<"Dozen eggs">>), Price |-> PyNum(3990000),
     Category |-> Food, State |-> Texas, City |-> Dallas]
ObsQuote ==
    [Date |-> PyDate(9), Item |-> PyStr(<<"Farmer", Quote, "s socks">>),
     Price |-> PyNum(0), Category |-> PyStr(<<"Clothing">>),
     State |-> PyStr(<<"None">>), City |-> Dallas]
NoObs ==
    [Date |-> PyNone, Item |-> PyNone, Price |-> PyNone, Category |-> PyNone,
     State |-> PyNone, City |-> PyNone]

ObsInputs ==
    {ObsEggs, ObsQuote, NoObs}
    \cup {[ObsEggs EXCEPT ![c] = PyNone] : c \in {"City", "Price", "Date"}}

HasNone(obs) == \E c \in Columns : obs[c] = PyNone

\* keyword arguments of delete_matching: the four the dashboard passes (its
\* date is the date picker's text), narrower and wider ones, one with a None,
\* and none at all
KwDashboard ==
    << [k |-> "state", v |-> Texas], [k |-> "city", v |-> Dallas],
       [k |-> "date", v |-> PyStr(strftime_date(15))], [k |-> "category", v |-> Food] >>
KwCity ==
    << [k |-> "city", v |-> Dallas], [k |-> "category", v |-> PyStr(<<"Clothing">>)] >>
KwItem == << [k |-> "item", v |-> PyStr(<<"Farmer", Quote, "s socks">>)] >>
KwDate == << [k |-> "date", v |-> PyDate(9)], [k |-> "price", v |-> PyNum(0)] >>
KwNone == << [k |-> "city", v |-> PyNone] >>
KwInputs == {KwDashboard, KwCity, KwItem, KwDate, KwNone, <<>>}

NInputs == -1..MaxN

\* datetime.date.today() at the call
TodayInputs == {15}

\* where create_table() can raise: at one of its three statements, or nowhere
FailInputs == {"none", "drop", "create", "load"}

-----------------------------------------------------------------------------
(* The operations *)

\* what is recorded of the last call: the operation, its arguments, whether
\* it raised, and which case of the operation it was
Call(op, arg, err, case) == [op |-> op, arg |-> arg, err |-> err, case |-> case]

\* `with sqlite3.connect(db_file) as con`: leaving the block commits or rolls
\* back and does not close.  The connection is closed when its last reference
\* goes: at the return of the call, or, when the call raises, not before the
\* traceback that holds the frame is dropped.
with_connect(err) == IF err THEN conns + 1 ELSE conns

Init ==
    /\ exists = FALSE
    /\ rows = <<>>
    /\ nextOrd = 0
    /\ rng = 0
    /\ conns = 0
    /\ budget = MaxCalls
    /\ last = Call("init", <<>>, FALSE, "")

\* Observation(**inputs).write(), the guard scoping `scope`
Write(obs, scope) ==
    /\ budget > 0
    /\ conns = 0
    /\ budget' = budget - 1
    /\ LET row == [i \in 1..6 |-> sqlize(write_values(obs)[i])]
           out == IF none_guard(row) \/ scope = "none"
                  THEN exec_insert(exists, rows, nextOrd + 1, insert_columns, row)
                  ELSE IF scope = "both"
                  THEN [err |-> FALSE, rows |-> rows]
                  ELSE [err |-> TRUE, rows |-> rows]
       IN  /\ rows' = out.rows
           /\ nextOrd' = IF out.rows # rows THEN nextOrd + 1 ELSE nextOrd
           /\ conns' = with_connect(out.err)
           /\ last' = Call("write", obs, out.err, IF HasNone(obs) THEN "none" ELSE "full")
    /\ UNCHANGED <<exists, rng>>

\* Observation.create_table(), raising at statement failAt
CreateTable(failAt, today) ==
    /\ budget > 0
    /\ conns = 0
    /\ budget' = budget - 1
    /\ LET df == get_test_data(today, rng)
       IN  CASE failAt = "drop" ->
                  /\ UNCHANGED <<exists, rows, nextOrd, rng>>
             [] failAt = "create" ->
                  \* "drop table if exists" is committed on its own
                  /\ exists' = FALSE
                  /\ rows' = <<>>
                  /\ UNCHANGED <<nextOrd, rng>>
             [] failAt = "load" ->
                  \* so is "create table"; the load is rolled back
                  /\ exists' = TRUE
                  /\ rows' = drop_and_create(rows)
                  /\ rng' = (rng + Len(df)) % Len(Noise)
                  /\ UNCHANGED nextOrd
             [] OTHER ->
                  /\ exists' = TRUE
                  /\ rows' = to_sql(drop_and_create(rows), df, nextOrd + 1)
                  /\ nextOrd' = nextOrd + Len(df)
                  /\ rng' = (rng + Len(df)) % Len(Noise)
    /\ conns' = with_connect(failAt # "none")
    /\ last' = Call("create_table", today, failAt # "none", failAt)

\* Observation.get_test_data()
GetTestData(today) ==
    /\ conns = 0
    /\ rng' = (rng + Len(get_test_data(today, rng))) % Len(Noise)
    /\ last' = Call("get_test_data", today, FALSE, "")
    /\ UNCHANGED <<exists, rows, nextOrd, conns, budget>>

\* Observation.table_df()
TableDf ==
    /\ conns = 0
    /\ conns' = with_connect(~exists)
    /\ last' = Call("table_df", <<>>, ~exists, "")
    /\ UNCHANGED <<exists, rows, nextOrd, rng, budget>>

\* which case a delete_matching of k matching rows with n_to_delete = n is
delete_case(k, n) ==
    IF k = 0 THEN "nomatch"
    ELSE IF n < 0 THEN "negative"
    ELSE IF n = 0 THEN "zero"
    ELSE IF n < k THEN "some" ELSE "all"

\* obj.delete_matching(n_to_delete=n, **kwargs)
DeleteMatching(kwargs, n) ==
    /\ budget > 0
    /\ conns = 0
    /\ budget' = budget - 1
    /\ LET conds == conditions(kwargs)
           ok == exists /\ conditions_ok(conds)
       IN  /\ IF ok
              THEN \E S \in select_limit(rows, conds, n) : rows' = without(rows, S)
              ELSE rows' = rows
           /\ conns' = with_connect(~ok)
           /\ last' = Call("delete_matching", [kwargs |-> kwargs, n |-> n], ~ok,
                           IF ok THEN delete_case(Cardinality(matching(rows, conds)), n)
                           ELSE "error")
    /\ UNCHANGED <<exists, nextOrd, rng>>

\* the caller is done with the exception of a failed call, which it is before
\* its next call: the connection the traceback kept alive is closed
DropException ==
    /\ conns > 0
    /\ conns' = conns - 1
    /\ UNCHANGED <<exists, rows, nextOrd, rng, budget, last>>

Next ==
    \/ \E obs \in ObsInputs, scope \in GuardScopes : Write(obs, scope)
    \/ \E failAt \in FailInputs, today \in TodayInputs : CreateTable(failAt, today)
    \/ \E today \in TodayInputs : GetTestData(today)
    \/ TableDf
    \/ \E kwargs \in KwInputs, n \in NInputs : DeleteMatching(kwargs, n)
    \/ DropException

Spec == Init /\ [][Next]_vars

-----------------------------------------------------------------------------
(* What the properties speak of *)

Min(a, b) == IF a < b THEN a ELSE b

\* the value a column holds for a Python value: text as text, a number as a
\* number, a date as its ISO text; nothing stored equals None
stored_as(v) ==
    CASE v.t = "str" -> SqlText(v.s)
      [] v.t = "num" -> SqlNum(v.n)
      [] v.t = "date" -> SqlText(strftime_date(v.n))
      [] OTHER -> [t |-> "null", s |-> NoText, n |-> 0]

\* the row equals the given value on every field of the filter
Matches(r, kwargs) ==
    \A i \in 1..Len(kwargs) :
        /\ capitalize(kwargs[i].k) \in Columns
        /\ r[capitalize(kwargs[i].k)] = stored_as(kwargs[i].v)

MatchCount(rs, kwargs) == Cardinality({i \in 1..Len(rs) : Matches(rs[i], kwargs)})

\* every row of the first table is a row of the second
RowsWithin(rs1, rs2) ==
    \A i \in 1..Len(rs1) : \E j \in 1..Len(rs2) : rs2[j] = rs1[i]

Range(s) == {s[i] : i \in 1..Len(s)}

\* the (category, item, state, city) combinations of the vocabulary
Combinations ==
    UNION {{<<p[1].k, q[1], p[2].k, q[2]>> : q \in Range(p[1].v) \X Range(p[2].v)} :
            p \in Range(category_item_map) \X Range(state_city_map)}

\* (number of items) x (number of cities) x days x replicas
synthetic_cardinality ==
    Len(available_items) * Len(available_cities) * periods * replicas

\* the records of a frame of get_test_data for one combination and one day
RecordsOf(df, combo, day) ==
    {i \in 1..Len(df) :
        /\ df[i].Category.s = combo[1] /\ df[i].Item.s = combo[2]
        /\ df[i].State.s = combo[3] /\ df[i].City.s = combo[4]
        /\ df[i].Date.n = day}

-----------------------------------------------------------------------------
(* Properties *)

\* the step is a call of the operation: the call is recorded and, for the
\* three operations that are counted, the count went down
Called(op) == last'.op = op /\ (op \in {"get_test_data", "table_df"} \/ budget' # budget)

\* C1. Null-skip: a write() of an observation with at least one of its six
\* fields None raises nothing and leaves the store as it was, so table_df()
\* has as many rows after it as before.
C1_NullSkip ==
    [][(Called("write") /\ HasNone(last'.arg)) =>
            /\ ~last'.err
            /\ exists' = exists
            /\ rows' = rows
            /\ Len(table_df(rows')) = Len(table_df(rows))]_vars

\* the frame after a write(): one new row on top, holding the inputs under
\* their own columns, and the rows of before under it
RoundTrip(obs) ==
    /\ ~last'.err
    /\ exists'
    /\ Len(table_df(rows')) = Len(table_df(rows)) + 1
    /\ \A c \in Columns : table_df(rows')[1][c] = stored_as(obs[c])
    /\ Tail(table_df(rows')) = table_df(rows)

\* C2 as stated. Insert round trip in any store state: a write() of an
\* observation with six non-null fields adds exactly one row to what
\* table_df() shows, and that row holds the inputs.
C2_RoundTripAnyState ==
    [][(Called("write") /\ ~HasNone(last'.arg)) => RoundTrip(last'.arg)]_vars

\* C2 as amended. Insert round trip where the table exists: a write() of an
\* observation with six non-null fields adds exactly one row to what
\* table_df() shows, and that row holds the inputs, each under its own
\* column (the Date as its ISO text, which is what the store keeps).
C2_RoundTrip ==
    [][(Called("write") /\ ~HasNone(last'.arg) /\ exists) => RoundTrip(last'.arg)]_vars

\* a write() of the observation with a quote in its text has added its row
C2_Witness ==
    /\ last.op = "write" /\ last.arg = ObsQuote /\ ~last.err
    /\ Len(rows) > synthetic_cardinality
    /\ rows[Len(rows)].Item = stored_as(ObsQuote.Item)

\* C3. Bounded delete: with K >= 1 rows matching a non-empty filter and
\* n_to_delete = m >= 0, delete_matching raises nothing, removes exactly
\* min(m, K) rows, all of them matching, and K - min(m, K) rows still match.
C3_BoundedDelete ==
    [][(/\ Called("delete_matching")
        /\ last'.arg.n >= 0 /\ last'.arg.kwargs # <<>> /\ exists
        /\ MatchCount(rows, last'.arg.kwargs) >= 1) =>
            LET K == MatchCount(rows, last'.arg.kwargs)
                m == Min(last'.arg.n, K)
            IN  /\ ~last'.err
                /\ Len(rows') = Len(rows) - m
                /\ MatchCount(rows', last'.arg.kwargs) = K - m
                /\ RowsWithin(rows', rows)]_vars

\* a delete_matching with 0 < m < K has run
C3_Witness ==
    /\ last.op = "delete_matching" /\ ~last.err
    /\ last.arg.n > 0
    /\ MatchCount(rows, last.arg.kwargs) > 0
    /\ last.case = "some"

C5_ResetShape ==
    [][(Called("create_table") /\ ~last'.err) =>
            /\ exists'
            /\ Len(table_df(rows')) = synthetic_cardinality
            /\ Len(table_df(rows')) > 0
            /\ \A i \in 1..Len(rows') : rows'[i].ord > nextOrd]_vars

\* a second create_table() has returned, the first one's table having
\* been changed in between
C5_Witness ==
    /\ last.op = "create_table" /\ ~last.err
    /\ nextOrd > 2 * synthetic_cardinality
    /\ Len(rows) = synthetic_cardinality

\* C6. Fetch order: table_df() shows every stored row exactly once, a row
\* inserted later before a row inserted earlier.
C6_FetchOrder ==
    exists =>
        LET df == table_df(rows)
        IN  /\ Len(df) = Len(rows)
            /\ \A i \in 1..Len(rows) :
                    Cardinality({j \in 1..Len(df) : df[j].rowid = rows[i].rowid}) = 1
            /\ \A i \in 1..Len(rows) : \E j \in 1..Len(df) : df[j] = rows[i]
            /\ \A i, j \in 1..Len(df) : i < j => df[i].ord > df[j].ord

\* table_df() has run after an insert that followed the delete of the most
\* recently inserted row: the newest row took the rowid of the deleted one
C6_Witness ==
    /\ last.op = "table_df" /\ ~last.err
    /\ Len(rows) >= 2
    /\ rows[Len(rows)].rowid = rows[Len(rows) - 1].rowid + 1
    /\ rows[Len(rows)].ord > rows[Len(rows) - 1].ord + 1

\* C7. Delete frame: whatever n is, every row that differs from the filter
\* on at least one of its fields is still stored, unchanged, after
\* delete_matching, and no row is added.
C7_DeleteFrame ==
    [][Called("delete_matching") =>
            /\ RowsWithin(rows', rows)
            /\ \A i \in 1..Len(rows) :
                    ~Matches(rows[i], last'.arg.kwargs)
                        => \E j \in 1..Len(rows') : rows'[j] = rows[i]]_vars

\* a delete_matching has removed rows and left others that do not match
C7_Witness ==
    /\ last.op = "delete_matching"
    /\ last.case \in {"some", "all", "negative"}
    /\ \E i \in 1..Len(rows) : ~Matches(rows[i], last.arg.kwargs)

\* C8. Delete cap for every integer: one delete_matching removes at most
\* n_to_delete rows, and none when n_to_delete <= 0.
C8_DeleteCap ==
    [][Called("delete_matching") =>
            Len(rows) - Len(rows') <= (IF last'.arg.n < 0 THEN 0 ELSE last'.arg.n)]_vars

\* C9. Connection scoping: after any sequence of calls, returned or raised,
\* no connection is open.
C9_NoOpenConnection == conns = 0

\* C10. Reset is all-or-nothing: a create_table() leaves the table either
\* fully replaced by the seed dataset or as it was before the call.
C10_ResetAllOrNothing ==
    [][Called("create_table") =>
            \/ /\ exists'
               /\ Len(rows') = synthetic_cardinality
               /\ \A i \in 1..Len(rows') : rows'[i].ord > nextOrd
            \/ exists' = exists /\ rows' = rows]_vars

=============================================================================
